---------------------------- MODULE Spec2Model ----------------------------
(***************************************************************************)
(* books.py: a Scrapy spider that walks the paginated catalogue of         *)
(* books.toscrape.com, yields one {title, price} item per product node and *)
(* follows the "next" link, while book_spider_result() collects the items  *)
(* through the item_scraped signal and returns them when the crawl ends.   *)
(*                                                                         *)
(* The spider runs inside a CrawlerProcess built with no settings, so the  *)
(* framework defaults apply to every request the source creates:           *)
(*   - scrapy.Request / response.follow build requests with                *)
(*     dont_filter = False, and the scheduler drops a request whose URL    *)
(*     the duplicate filter has already seen;                              *)
(*   - a download that fails with a transient error is scheduled again by  *)
(*     the retry middleware, at most RETRY_TIMES more times;               *)
(*   - a response with a non-2xx status never reaches the callback;        *)
(*   - no errback is given, so a failed request is dropped and             *)
(*     crawler_process.start() returns normally once nothing is pending.   *)
(***************************************************************************)
EXTENDS Integers, Sequences, FiniteSets, TLC

VARIABLES
    pc,             \* position in book_spider_result: "start", "running", "closed", "returned"
    site,           \* the web site: URL -> page, for the URLs served so far
    scheduler,      \* requests waiting in the engine's scheduler (a queue)
    seen,           \* URLs recorded by the duplicate filter
    inflight,       \* requests handed to the downloader and not yet answered
    cb,             \* the running response_parser generator: [k, i]; i = 0 when none runs
    visited,        \* responses handed to response_parser, in order: [url, follow]
    admitted,       \* URLs of the spider's requests the scheduler accepted, in order
    attempts,       \* every download attempt, in order: [url, result]
    emitted,        \* items yielded by response_parser, in order
    origin,         \* for each emitted item: [k, i], the visit and the node it came from
    books_results,  \* the list crawler_results appends to
    stock,          \* product nodes the site may still show on pages not served yet
    outcome,        \* what book_spider_result handed to its caller: <<>> or <<[raised, value]>>
    main,           \* position in the __main__ block: "call", "keys", "open", "header",
                    \* "exit", or the exception that ended it
    keys,           \* the field names read from the first item
    file            \* books_data.csv in the working directory: [exists, rows]

vars == <<pc, site, scheduler, seen, inflight, cb, visited, admitted, attempts,
          emitted, origin, books_results, stock, outcome, main, keys, file>>

(***************************************************************************)
(* Bounds of the model and constants of the program.                       *)
(***************************************************************************)
\* The site holds at most MaxItems product nodes over all its pages
\* (MaxFairItems in the fair specification, used for termination).
MaxItems == 2
MaxFairItems == 1

\* Scrapy's RETRY_TIMES default, in force because CrawlerProcess() is built
\* without settings.
RETRY_TIMES == 2

\* Python's None, as returned by extract_first() when nothing matches.
None == "None"

(***************************************************************************)
(* URLs are sequences of path segments below https://books.toscrape.com;   *)
(* the last segment is the file name, "" for a directory index.            *)
(***************************************************************************)
URL == <<"">>
Page2URL == <<"catalogue", "page-2.html">>
Page3URL == <<"catalogue", "page-3.html">>

\* The URLs the site serves; any other URL is answered 404.
SiteURLs == {URL, Page2URL, Page3URL}

\* href values found on pages, as relative references ("" is <<>>).
EmptyHref == <<>>
Hrefs == { <<"catalogue", "page-2.html">>, <<"page-3.html">>, <<"..", "">> }

Front(s) == SubSeq(s, 1, Len(s) - 1)

RECURSIVE ResolveSegments(_, _)
ResolveSegments(dirs, segs) ==
    IF segs = <<>> THEN dirs
    ELSE IF Head(segs) = ".."
         THEN ResolveSegments(IF dirs = <<>> THEN dirs ELSE Front(dirs), Tail(segs))
         ELSE ResolveSegments(Append(dirs, Head(segs)), Tail(segs))

\* response.follow(href): urljoin(response.url, href).
urljoin(base, href) ==
    IF href = <<>> THEN base ELSE ResolveSegments(Front(base), href)

(***************************************************************************)
(* Pages.  A product node (article.product_pod) carries the title          *)
(* attributes matched by 'h3 > a::attr(title)' and the texts matched by    *)
(* '.price_color::text', in document order.  The pager is the sequence of  *)
(* anchors under li.next, each with zero or one href attribute.            *)
(***************************************************************************)
TitleMatches == { <<>>, <<"A", "B">> }
PriceMatches == { <<>>, <<"$10">> }
Nodes == [titles : TitleMatches, prices : PriceMatches]

Anchors == { <<>> } \cup { <<h>> : h \in {EmptyHref} \cup Hrefs }
Pagers == { <<>> } \cup { <<a>> : a \in Anchors }

NodeSeqs(n) == UNION { [1..m -> Nodes] : m \in 0..n }
PagesUpTo(n) == [entries : NodeSeqs(n), next : Pagers]

(***************************************************************************)
(* Selectors.                                                              *)
(***************************************************************************)
\* SelectorList.extract_first(): the first match, or None.
extract_first(matches) == IF matches = <<>> THEN None ELSE Head(matches)

\* Variant of the dict that leaves out the fields that were not found.
item_sparse(selector) ==
    (IF selector.titles = <<>> THEN <<>> ELSE << <<"title", Head(selector.titles)>> >>)
    \o (IF selector.prices = <<>> THEN <<>> ELSE << <<"price", Head(selector.prices)>> >>)

\* The dict yielded for one selector; a dict keeps its keys in insertion order.
item(selector) ==
    << <<"title", extract_first(selector.titles)>>,
       <<"price", extract_first(selector.prices)>> >>

\* response.css('article.product_pod'): the product nodes, in document order.
selectors(page) == page.entries

\* Variants of extract with a slip in the loop: the first node is skipped;
\* nodes with a missing field are skipped.
extract_skip_first(page) ==
    [i \in 1..(Len(selectors(page)) - 1) |-> item(selectors(page)[i + 1])]

RECURSIVE complete_items(_)
complete_items(nodes) ==
    IF nodes = <<>> THEN <<>>
    ELSE (IF Head(nodes).titles = <<>> \/ Head(nodes).prices = <<>>
          THEN <<>> ELSE <<item(Head(nodes))>>) \o complete_items(Tail(nodes))

extract_complete_only(page) == complete_items(selectors(page))

\* Variant of extract that looks at the crawl: only the first response is parsed.
extract_first_response_only(page) ==
    IF Len(visited) > 1 THEN <<>>
    ELSE [i \in 1..Len(selectors(page)) |-> item(selectors(page)[i])]

\* The items the for loop of response_parser yields for a page, in order.
extract(page) == [i \in 1..Len(selectors(page)) |-> item(selectors(page)[i])]

RECURSIVE Flatten(_)
Flatten(ss) == IF ss = <<>> THEN <<>> ELSE Head(ss) \o Flatten(Tail(ss))

\* response.css('li.next a::attr(href)'): the href attributes of the anchors.
next_hrefs(page) == Flatten(page.next)

\* Variant of the test: "if next_page_link is not None:".
truthy_not_none(matches) == matches # <<>>

\* "if next_page_link:" -- None and the empty string are both false.
truthy(matches) == matches # <<>> /\ Head(matches) # EmptyHref

\* Variant of response_parser that resolves the href against the start URL.
next_page_link_rooted(url, page) ==
    IF truthy(next_hrefs(page))
    THEN << [url |-> urljoin(URL, Head(next_hrefs(page))), retry_times |-> 0,
             dont_filter |-> FALSE] >>
    ELSE <<>>

\* Variant of response_parser that never follows the pager.
next_page_link_never(url, page) == <<>>

\* The requests response_parser yields after its item loop.
next_page_link(url, page) ==
    IF truthy(next_hrefs(page))
    THEN << [url |-> urljoin(url, Head(next_hrefs(page))), retry_times |-> 0,
             dont_filter |-> FALSE] >>
    ELSE <<>>

\* Variant of response_parser that may yield the next-page request (and end)
\* before the item loop is through.
after_loop_anytime(i, page) == TRUE

\* response_parser reaches line 21 when the for loop has yielded every item.
after_loop(i, page) == i > Len(extract(page))

\* Variant of start_requests that yields two start URLs.
start_requests_two ==
    << [url |-> URL, retry_times |-> 0, dont_filter |-> FALSE],
       [url |-> Page2URL, retry_times |-> 0, dont_filter |-> FALSE] >>

\* The requests start_requests yields.
start_requests == << [url |-> URL, retry_times |-> 0, dont_filter |-> FALSE] >>

\* Variant of crawler_results: books_results.insert(0, item).
crawler_results_insert(results, it) == <<it>> \o results

\* crawler_results(item): books_results.append(item).
crawler_results(results, it) == Append(results, it)

(***************************************************************************)
(* The engine.                                                             *)
(***************************************************************************)
\* Variant in which the requests are built with dont_filter=True.
dupefiltered_off(req, fingerprints) == FALSE

\* Scheduler.enqueue_request: a request is dropped when it may be filtered
\* and the duplicate filter has seen its URL; the filter records what it is asked.
dupefiltered(req, fingerprints) == ~req.dont_filter /\ req.url \in fingerprints

RECURSIVE enqueue(_, _)
enqueue(st, reqs) ==
    IF reqs = <<>> THEN st
    ELSE LET r == Head(reqs) IN
         IF dupefiltered(r, st.seen)
         THEN enqueue(st, Tail(reqs))
         ELSE enqueue([queue |-> Append(st.queue, r),
                       seen |-> IF r.dont_filter THEN st.seen ELSE st.seen \cup {r.url},
                       admitted |-> IF r.retry_times = 0
                                    THEN Append(st.admitted, r.url) ELSE st.admitted],
                      Tail(reqs))

EngineState == [queue |-> scheduler, seen |-> seen, admitted |-> admitted]

\* Variant of the retry limit that allows one retry more.
retry_once_more(req) ==
    IF req.retry_times <= RETRY_TIMES
    THEN << [url |-> req.url, retry_times |-> req.retry_times + 1, dont_filter |-> TRUE] >>
    ELSE <<>>

\* RetryMiddleware._retry: the request again, unless its retries are used up.
retry(req) ==
    IF req.retry_times < RETRY_TIMES
    THEN << [url |-> req.url, retry_times |-> req.retry_times + 1, dont_filter |-> TRUE] >>
    ELSE <<>>

Running == cb.i > 0
Idle == [k |-> 0, i |-> 0]

\* Variant of the idle test that overlooks the scheduler.
spider_idle_early == inflight = {} /\ ~Running

\* The engine is idle: nothing scheduled, nothing downloading, no callback running.
spider_idle == scheduler = <<>> /\ inflight = {} /\ ~Running

\* What crawler_process.start() followed by "return books_results" gives the caller.
book_spider_result(results) == [raised |-> FALSE, value |-> results]

(***************************************************************************)
(* The __main__ block: the items are written to books_data.csv.            *)
(***************************************************************************)
\* books_data.csv before the run: absent, or left there by an earlier run.
NoFile == [exists |-> FALSE, rows |-> <<>>]
StaleFile == [exists |-> TRUE, rows |-> << <<"title", "price">>, <<"Old", "$1">> >>]

\* dict.keys(): the keys in insertion order.
dict_keys(it) == [j \in 1..Len(it) |-> it[j][1]]

\* Variant of line 43 that falls back to no field names for an empty list.
first_keys_or_none(data) ==
    [raised |-> FALSE, keys |-> IF data = <<>> THEN <<>> ELSE dict_keys(data[1])]

\* books_data[0].keys(): IndexError on an empty list.
first_keys(data) ==
    IF data = <<>> THEN [raised |-> TRUE, keys |-> <<>>]
    ELSE [raised |-> FALSE, keys |-> dict_keys(data[1])]

\* open('books_data.csv', 'w'): the file is created or truncated.
open_w(f) == [exists |-> TRUE, rows |-> <<>>]

\* rowdict.get(key, restval), restval being ''.
dict_get(rowdict, key) ==
    IF \E j \in 1..Len(rowdict) : rowdict[j][1] = key
    THEN rowdict[CHOOSE j \in 1..Len(rowdict) : rowdict[j][1] = key][2]
    ELSE ""

\* Variant of the cell rendering: str(value).
render_str(value) == value

\* The csv writer's rendering of a cell: None is written as the empty string.
render(value) == IF value = None THEN "" ELSE value

\* DictWriter._dict_to_list: ValueError when the dict has a key that is no
\* field name, else the cells in the order of the field names.
has_extras(rowdict, fieldnames) ==
    \E j \in 1..Len(rowdict) : \A c \in 1..Len(fieldnames) : fieldnames[c] # rowdict[j][1]

dict_to_list(rowdict, fieldnames) ==
    [c \in 1..Len(fieldnames) |-> render(dict_get(rowdict, fieldnames[c]))]

\* writer.writerows(data): the rows are written one by one; the first dict
\* with an extra key ends the call with ValueError.
RECURSIVE writerows(_, _, _)
writerows(rows, data, fieldnames) ==
    IF data = <<>> THEN [raised |-> FALSE, rows |-> rows]
    ELSE IF has_extras(Head(data), fieldnames) THEN [raised |-> TRUE, rows |-> rows]
    ELSE writerows(Append(rows, dict_to_list(Head(data), fieldnames)), Tail(data), fieldnames)

InitWith(n) ==
    /\ pc = "start"
    /\ stock = n
    /\ site = [u \in {} |-> 0]
    /\ scheduler = <<>>
    /\ seen = {}
    /\ inflight = {}
    /\ cb = Idle
    /\ visited = <<>>
    /\ admitted = <<>>
    /\ attempts = <<>>
    /\ emitted = <<>>
    /\ origin = <<>>
    /\ books_results = <<>>
    /\ outcome = <<>>
    /\ main = "call"
    /\ keys = <<>>
    /\ file \in {NoFile, StaleFile}

Init == InitWith(MaxItems)

\* crawler_process.crawl(BooksSpider); start(): the engine takes the start requests.
StartCrawl ==
    /\ pc = "start"
    /\ pc' = "running"
    /\ LET st == enqueue(EngineState, start_requests) IN
         /\ scheduler' = st.queue
         /\ seen' = st.seen
         /\ admitted' = st.admitted
    /\ UNCHANGED <<site, inflight, cb, visited, attempts, emitted, origin,
                   books_results, stock, outcome, main, keys, file>>

\* The engine passes the next scheduled request to the downloader.
NextRequest ==
    /\ pc = "running"
    /\ scheduler # <<>>
    /\ inflight' = inflight \cup {Head(scheduler)}
    /\ scheduler' = Tail(scheduler)
    /\ UNCHANGED <<pc, site, seen, cb, visited, admitted, attempts, emitted, origin,
                   books_results, stock, outcome, main, keys, file>>

\* The pages the site may turn out to serve at u.
Served(u) ==
    IF u \in DOMAIN site THEN {site[u]}
    ELSE PagesUpTo(stock)

\* A 200 response arrives and response_parser is called with it.
DownloadOk ==
    \E r \in inflight : \E p \in Served(r.url) :
        /\ r.url \in SiteURLs
        /\ ~Running
        /\ inflight' = inflight \ {r}
        /\ site' = [u \in DOMAIN site \cup {r.url} |-> IF u = r.url THEN p ELSE site[u]]
        /\ attempts' = Append(attempts, [url |-> r.url, result |-> "ok"])
        /\ visited' = Append(visited, [url |-> r.url, follow |-> <<>>])
        /\ cb' = [k |-> Len(visited) + 1, i |-> 1]
        /\ stock' = IF r.url \in DOMAIN site THEN stock ELSE stock - Len(p.entries)
        /\ UNCHANGED <<pc, scheduler, seen, admitted, emitted, origin,
                       books_results, outcome, main, keys, file>>

\* The download fails with a transient error (timeout, connection lost, 503):
\* the retry middleware schedules it again or gives up; no callback runs.
DownloadError ==
    \E r \in inflight :
        /\ r.url \in SiteURLs
        /\ inflight' = inflight \ {r}
        /\ attempts' = Append(attempts, [url |-> r.url, result |-> "error"])
        /\ LET st == enqueue(EngineState, retry(r)) IN
             /\ scheduler' = st.queue
             /\ seen' = st.seen
             /\ admitted' = st.admitted
        /\ UNCHANGED <<pc, site, cb, visited, emitted, origin, books_results, stock, outcome, main, keys, file>>

\* The site does not serve the URL: the 404 response is dropped by the
\* HttpError middleware; it is neither retried nor passed to the callback.
DownloadNotFound ==
    \E r \in inflight :
        /\ r.url \notin SiteURLs
        /\ inflight' = inflight \ {r}
        /\ attempts' = Append(attempts, [url |-> r.url, result |-> "404"])
        /\ UNCHANGED <<pc, site, scheduler, seen, cb, visited, admitted, emitted,
                       origin, books_results, stock, outcome, main, keys, file>>

\* response_parser, one turn of its for loop: the item is yielded, the engine
\* sends item_scraped and crawler_results appends it.
ParseItem ==
    /\ Running
    /\ LET page == site[visited[cb.k].url] IN
         /\ cb.i <= Len(extract(page))
         /\ emitted' = Append(emitted, extract(page)[cb.i])
         /\ origin' = Append(origin, [k |-> cb.k, i |-> cb.i])
         /\ books_results' = crawler_results(books_results, extract(page)[cb.i])
         /\ cb' = [cb EXCEPT !.i = cb.i + 1]
    /\ UNCHANGED <<pc, site, scheduler, seen, inflight, visited, admitted, attempts,
                   stock, outcome, main, keys, file>>

\* response_parser after the loop: the next-page request, if any, is yielded
\* and the generator ends.
ParseNext ==
    /\ Running
    /\ LET u == visited[cb.k].url
           page == site[u]
           reqs == next_page_link(u, page)
           st == enqueue(EngineState, reqs)
       IN
         /\ after_loop(cb.i, page)
         /\ visited' = [visited EXCEPT ![cb.k].follow = [j \in DOMAIN reqs |-> reqs[j].url]]
         /\ scheduler' = st.queue
         /\ seen' = st.seen
         /\ admitted' = st.admitted
         /\ cb' = Idle
    /\ UNCHANGED <<pc, site, inflight, attempts, emitted, origin, books_results, stock, outcome, main, keys, file>>

\* Nothing is left to do: the spider closes and crawler_process.start() returns.
CloseSpider ==
    /\ pc = "running"
    /\ spider_idle
    /\ pc' = "closed"
    /\ UNCHANGED <<site, scheduler, seen, inflight, cb, visited, admitted, attempts,
                   emitted, origin, books_results, stock, outcome, main, keys, file>>

\* return books_results
Return ==
    /\ pc = "closed"
    /\ pc' = "returned"
    /\ outcome' = Append(outcome, book_spider_result(books_results))
    /\ UNCHANGED <<site, scheduler, seen, inflight, cb, visited, admitted, attempts,
                   emitted, origin, books_results, stock, main, keys, file>>

\* books_data = book_spider_result() has returned.
books_data == outcome[1].value

\* keys = books_data[0].keys()
MainKeys ==
    /\ pc = "returned"
    /\ main = "call"
    /\ keys' = first_keys(books_data).keys
    /\ main' = IF first_keys(books_data).raised THEN "IndexError" ELSE "keys"
    /\ UNCHANGED <<pc, site, scheduler, seen, inflight, cb, visited, admitted, attempts,
                   emitted, origin, books_results, stock, outcome, file>>

\* with open('books_data.csv', 'w', newline='') as output_file_name:
\*     writer = csv.DictWriter(output_file_name, keys)
MainOpen ==
    /\ main = "keys"
    /\ file' = open_w(file)
    /\ main' = "open"
    /\ UNCHANGED <<pc, site, scheduler, seen, inflight, cb, visited, admitted, attempts,
                   emitted, origin, books_results, stock, outcome, keys>>

\* writer.writeheader()
MainWriteHeader ==
    /\ main = "open"
    /\ file' = [file EXCEPT !.rows = Append(file.rows, keys)]
    /\ main' = "header"
    /\ UNCHANGED <<pc, site, scheduler, seen, inflight, cb, visited, admitted, attempts,
                   emitted, origin, books_results, stock, outcome, keys>>

\* writer.writerows(books_data); the with block closes the file.
MainWriteRows ==
    /\ main = "header"
    /\ LET w == writerows(file.rows, books_data, keys) IN
         /\ file' = [file EXCEPT !.rows = w.rows]
         /\ main' = IF w.raised THEN "ValueError" ELSE "exit"
    /\ UNCHANGED <<pc, site, scheduler, seen, inflight, cb, visited, admitted, attempts,
                   emitted, origin, books_results, stock, outcome, keys>>

Next ==
    \/ StartCrawl
    \/ NextRequest
    \/ DownloadOk
    \/ DownloadError
    \/ DownloadNotFound
    \/ ParseItem
    \/ ParseNext
    \/ CloseSpider
    \/ Return
    \/ MainKeys
    \/ MainOpen
    \/ MainWriteHeader
    \/ MainWriteRows

Spec == Init /\ [][Next]_vars

\* The reactor runs every pending event: as long as a step is possible, one is taken.
FairSpec == InitWith(MaxFairItems) /\ [][Next]_vars /\ WF_vars(Next)

TypeOK ==
    /\ pc \in {"start", "running", "closed", "returned"}
    /\ DOMAIN site \subseteq SiteURLs
    /\ stock \in 0..MaxItems
    /\ Len(emitted) <= MaxItems


(***************************************************************************)
(* Notions the properties are stated in.                                   *)
(***************************************************************************)
Done == pc \in {"closed", "returned"}

\* The callback of visit k has run to its end.
VisitDone(k) == ~(Running /\ cb.k = k)

Visits == 1..Len(visited)
PageOf(k) == site[visited[k].url]

\* The value a dict holds under a key, and its keys in order.
Field(it, key) == LET j == CHOOSE j \in 1..Len(it) : it[j][1] = key IN it[j][2]
Keys(it) == [j \in 1..Len(it) |-> it[j][1]]

\* The items emitted during visit k, in emission order.
RECURSIVE Pick(_, _, _)
Pick(items, from, k) ==
    IF items = <<>> THEN <<>>
    ELSE (IF Head(from).k = k THEN <<Head(items)>> ELSE <<>>)
         \o Pick(Tail(items), Tail(from), k)

EmittedBy(k) == Pick(emitted, origin, k)

\* The page the pager of the page at u points to, as the site defines it:
\* <<>> when the pager has no href, else the href resolved against u.
Link(u) ==
    IF next_hrefs(site[u]) = <<>> THEN <<>>
    ELSE <<urljoin(u, Head(next_hrefs(site[u])))>>

\* The pages reached from u by following pagers, as far as the site is known.
RECURSIVE Chain(_, _)
Chain(u, n) ==
    IF n = 0 \/ u \notin DOMAIN site THEN <<>>
    ELSE <<u>> \o (IF Link(u) = <<>> THEN <<>> ELSE Chain(Link(u)[1], n - 1))

SeedChain == Chain(URL, Cardinality(SiteURLs) + 1)

\* No pager on the chain leads back into the chain or off the site.
Acyclic(c) ==
    \A i \in 1..Len(c) :
        \/ Link(c[i]) = <<>>
        \/ /\ Link(c[i])[1] \in SiteURLs
           /\ \A j \in 1..i : c[j] # Link(c[i])[1]

RECURSIVE ConcatItems(_)
ConcatItems(c) == IF c = <<>> THEN <<>> ELSE extract(site[Head(c)]) \o ConcatItems(Tail(c))

AllOk == \A a \in 1..Len(attempts) : attempts[a].result = "ok"
AttemptURLs == [a \in 1..Len(attempts) |-> attempts[a].url]
VisitedURLs == [k \in Visits |-> visited[k].url]

\* Every fetch succeeded and the pagination from the seed is a finite chain.
ChainRun == Done /\ AllOk /\ Acyclic(SeedChain)

(***************************************************************************)
(* C1: when every fetch of a finite chain P1 -> ... -> Pn -> (none)        *)
(* succeeds, the result is P1's items, then P2's, ..., then Pn's, each     *)
(* page's items in document order, and nothing is fetched after Pn.        *)
(***************************************************************************)
C1_ChainConcatenation ==
    ChainRun =>
        /\ SeedChain # <<>>
        /\ Link(SeedChain[Len(SeedChain)]) = <<>>
        /\ books_results = ConcatItems(SeedChain)
        /\ AttemptURLs = SeedChain
        /\ scheduler = <<>> /\ inflight = {}
        /\ pc = "returned" => outcome = <<[raised |-> FALSE, value |-> ConcatItems(SeedChain)]>>

C1_Witness ==
    /\ pc = "returned"
    /\ ChainRun
    /\ SeedChain = <<URL, Page2URL, Page3URL>>
    /\ Len(EmittedBy(1)) = 1
    /\ Len(EmittedBy(3)) = 1
    /\ books_results[1] # books_results[2]

\* The fetch of u was given up: the last of its attempts is an error.
GivenUp(u) ==
    /\ \E a \in 1..Len(attempts) : attempts[a].url = u
    /\ \A a \in 1..Len(attempts) : attempts[a].url = u => attempts[a].result = "error"

P2FetchFailed ==
    /\ pc = "returned"
    /\ VisitedURLs = <<URL>>
    /\ Link(URL) = <<Page2URL>>
    /\ GivenUp(Page2URL)

\* What the caller gets from the run over the same P1 and an empty, last P2.
EmptyP2Outcome == <<book_spider_result(extract(site[URL]) \o <<>>)>>

(***************************************************************************)
(* C2: when the fetch of P2 fails in a chain P1 -> P2 -> P3, the result is *)
(* exactly P1's items, and the caller can tell the failed run from a run   *)
(* in which P2 was fetched and had neither entries nor a next link.        *)
(***************************************************************************)
C2_FailureReportedDistinctly ==
    P2FetchFailed =>
        /\ books_results = extract(site[URL])
        /\ outcome # EmptyP2Outcome

(***************************************************************************)
(* C3: the pagination step yields no next URL if and only if the page has  *)
(* no "next" navigation node; a node with any href, even an empty one,     *)
(* gets a follow-up request.                                               *)
(***************************************************************************)
C3_FollowIffNextNode ==
    \A k \in Visits :
        VisitDone(k) => (visited[k].follow = <<>> <=> PageOf(k).next = <<>>)

\* Some "next" anchor of the page has an href attribute that is not empty.
HasNonEmptyHref(page) ==
    \E a \in 1..Len(page.next) : page.next[a] # <<>> /\ page.next[a][1] # EmptyHref

\* C3 as amended: no next URL if and only if no "next" node carries a non-empty
\* href; with a non-empty href the request is for the href resolved against
\* the page's URL.
C3_FollowIffNonEmptyHref ==
    \A k \in Visits :
        VisitDone(k) =>
            /\ visited[k].follow = <<>> <=> ~HasNonEmptyHref(PageOf(k))
            /\ HasNonEmptyHref(PageOf(k)) =>
                  visited[k].follow = <<urljoin(visited[k].url, PageOf(k).next[1][1])>>

C3_Witness ==
    /\ Len(visited) = 2
    /\ ~Running
    /\ visited[1].follow = <<Page2URL>>
    /\ PageOf(2).next = << <<EmptyHref>> >>
    /\ visited[2].follow = <<>>

\* The first of the matches in document order, None without a match.
FirstOrNone(matches) == IF Len(matches) = 0 THEN None ELSE matches[1]

(***************************************************************************)
(* C4: a page with N product nodes gives exactly N items, the i-th built   *)
(* from the i-th node in document order.                                   *)
(***************************************************************************)
C4_OneItemPerNode ==
    \A k \in Visits :
        VisitDone(k) =>
            LET nodes == PageOf(k).entries
                recs == EmittedBy(k)
            IN  /\ Len(recs) = Len(nodes)
                /\ \A i \in 1..Len(nodes) :
                      /\ Field(recs[i], "title") = FirstOrNone(nodes[i].titles)
                      /\ Field(recs[i], "price") = FirstOrNone(nodes[i].prices)

C4_Witness ==
    \E k \in Visits :
        /\ VisitDone(k)
        /\ Len(PageOf(k).entries) = 2
        /\ Len(EmittedBy(k)) = 2
        /\ PageOf(k).entries[1] # PageOf(k).entries[2]
        /\ EmittedBy(k)[1] # EmittedBy(k)[2]

(***************************************************************************)
(* C5: a product node without title and/or price still gives an item, with *)
(* None for the absent field; the item is not dropped, the page is not     *)
(* aborted and the crawl does not stop.                                    *)
(***************************************************************************)
C5_MissingFieldIsNone ==
    \A k \in Visits :
        VisitDone(k) =>
            LET nodes == PageOf(k).entries
                recs == EmittedBy(k)
            IN  \A i \in 1..Len(nodes) :
                  (nodes[i].titles = <<>> \/ nodes[i].prices = <<>>) =>
                      /\ i <= Len(recs)
                      /\ Keys(recs[i]) = <<"title", "price">>
                      /\ nodes[i].titles = <<>> => recs[i][1][2] = None
                      /\ nodes[i].prices = <<>> => recs[i][2][2] = None
                      \* the nodes after it are still extracted
                      /\ Len(recs) >= Len(nodes)
                      \* and the pager is still followed
                      /\ HasNonEmptyHref(PageOf(k)) => visited[k].follow # <<>>

C5_Witness ==
    /\ Len(visited) = 2
    /\ ~Running
    /\ PageOf(1).entries = << [titles |-> <<>>, prices |-> <<>>],
                              [titles |-> <<"A", "B">>, prices |-> <<>>] >>
    /\ EmittedBy(1) = << << <<"title", None>>, <<"price", None>> >>,
                         << <<"title", "A">>, <<"price", None>> >> >>
    /\ visited[1].follow = <<Page2URL>>

NoRepeat(seq) == \A a, b \in 1..Len(seq) : a # b => seq[a] # seq[b]

OkAttempts(u) == {a \in 1..Len(attempts) : attempts[a].url = u /\ attempts[a].result = "ok"}

(***************************************************************************)
(* C6: in a crawl run each page is visited at most once.  A visit is a     *)
(* response handed to response_parser; the requests the spider gets past   *)
(* the scheduler are counted as well.  (The downloads the retry middleware *)
(* repeats after a transient error are attempts at one and the same        *)
(* request.)                                                               *)
(***************************************************************************)
C6_EachPageVisitedOnce ==
    /\ NoRepeat(VisitedURLs)
    /\ NoRepeat(admitted)
    /\ \A u \in SiteURLs : Cardinality(OkAttempts(u)) <= 1

\* Visit k ended with a request for a URL that had been visited already.
CycleAt(k) ==
    /\ VisitDone(k)
    /\ visited[k].follow # <<>>
    /\ \E j \in 1..k : visited[j].url = visited[k].follow[1]

CycleFound == \E k \in Visits : CycleAt(k)

C6_Witness ==
    /\ Done
    /\ Len(visited) = 3
    /\ CycleAt(3)
    /\ visited[3].follow = <<URL>>

(***************************************************************************)
(* C7: when the pagination contains a cycle (a next link resolves to an    *)
(* already visited URL) the crawl never reaches DONE and keeps fetching    *)
(* and emitting for ever.                                                  *)
(***************************************************************************)
C7_CycleNeverDone == CycleFound => ~Done

Pending == {scheduler[q] : q \in 1..Len(scheduler)} \cup inflight

\* After a cycle was met no visited URL is pending, none was parsed twice
\* and no page gave more items than it has product nodes.
CycleIsFiltered ==
    CycleFound =>
        /\ \A r \in Pending : \A k \in Visits : r.url # visited[k].url
        /\ NoRepeat(VisitedURLs)
        /\ \A k \in Visits : Len(EmittedBy(k)) <= Len(PageOf(k).entries)

\* C7 as amended: response_parser yields the request for the already visited
\* URL, the scheduler's duplicate filter drops it, no visited URL is
\* requested or parsed again, and the crawl ends.
C7_CycleEndsCrawl == []CycleIsFiltered /\ (CycleFound ~> Done)

C7_Witness ==
    /\ pc = "returned"
    /\ Len(visited) = 2
    /\ CycleAt(2)
    /\ visited[2].follow = <<URL>>
    /\ Len(books_results) = 1

\* A finished chain run made one fetch per page of the chain, each page but
\* the last linking to the next one fetched.
ChainFetches ==
    ChainRun =>
        /\ Len(attempts) = Len(SeedChain)
        /\ Len(visited) = Len(SeedChain)
        /\ Link(visited[Len(visited)].url) = <<>>
        /\ \A k \in 1..(Len(visited) - 1) : Link(visited[k].url) = <<visited[k + 1].url>>

(***************************************************************************)
(* C8: on a finite acyclic chain of n pages whose fetches all succeed the  *)
(* driver reaches DONE, after exactly n fetches: it is not DONE while the  *)
(* last page fetched has a next link, and DONE at the first without one.   *)
(***************************************************************************)
C8_ChainReachesDone == []ChainFetches /\ <>Done

C8_Witness ==
    /\ pc = "closed"
    /\ ChainRun
    /\ Len(attempts) = 2
    /\ Link(URL) = <<Page2URL>>
    /\ Link(Page2URL) = <<>>

(***************************************************************************)
(* C9: crawler_results runs once per emitted item, in emission order; the  *)
(* result is handed to the caller exactly once, only after the driver is   *)
(* DONE; nothing is accepted after that, and the result is never handed    *)
(* over while a fetch is pending.                                          *)
(***************************************************************************)
C9_SinkContract ==
    /\ books_results = emitted
    /\ Len(outcome) = (IF pc = "returned" THEN 1 ELSE 0)
    /\ outcome # <<>> =>
          /\ scheduler = <<>>
          /\ inflight = {}
          /\ ~Running
          /\ outcome[1].value = books_results

C9_Witness ==
    /\ pc = "returned"
    /\ Len(visited) = 2
    /\ Len(EmittedBy(1)) = 1
    /\ Len(EmittedBy(2)) = 1
    /\ emitted[1] # emitted[2]
    /\ outcome[1].value = emitted

(***************************************************************************)
(* C10: at every point of a run at most one fetch is scheduled or in       *)
(* flight.                                                                 *)
(***************************************************************************)
C10_OneFetchAtATime == Len(scheduler) + Cardinality(inflight) <= 1

C10_Witness ==
    /\ Len(visited) = 2
    /\ \E r \in inflight : r.url = Page3URL /\ r.retry_times = 1
    /\ scheduler = <<>>

\* The __main__ block has ended, normally or not.
MainEnded == main \in {"exit", "IndexError", "ValueError"}

\* The cell the csv file shows for a value.
Cell(value) == IF value = None THEN "" ELSE value

(***************************************************************************)
(* C11: for a non-empty result the file holds a header row, the field      *)
(* names of the first item in its key order, then one row per item in      *)
(* emission order and in the same column order, None written as the empty  *)
(* string.                                                                 *)
(***************************************************************************)
C11_CsvOutput ==
    /\ main # "ValueError"
    /\ (main = "exit") =>
          /\ books_results # <<>>
          /\ file.exists
          /\ Len(file.rows) = 1 + Len(books_results)
          /\ file.rows[1] = Keys(books_results[1])
          /\ \A r \in 1..Len(books_results) :
                /\ Len(file.rows[r + 1]) = Len(file.rows[1])
                /\ \A c \in 1..Len(file.rows[1]) :
                      file.rows[r + 1][c] = Cell(Field(books_results[r], file.rows[1][c]))

C11_Witness ==
    /\ main = "exit"
    /\ file.rows = << <<"title", "price">>, <<"A", "">>, <<"", "$10">> >>
    /\ Len(visited) = 2
    /\ Len(EmittedBy(1)) = 1

Failed(a) == attempts[a].result # "ok"

(***************************************************************************)
(* C12: after the first fetch failure no further fetch is issued in the    *)
(* run: the failed URL is not retried, no later page is requested and the  *)
(* driver goes to DONE at once.                                            *)
(***************************************************************************)
C12_NoFetchAfterFailure ==
    \A a \in 1..Len(attempts) :
        Failed(a) => a = Len(attempts) /\ Pending = {} /\ ~Running

\* The transient errors of the URL of attempt a, up to and including a.
ErrorsUpTo(a) ==
    Cardinality({b \in 1..a : attempts[b].url = attempts[a].url /\ attempts[b].result = "error"})

\* With attempt a the fetch was given up: a non-2xx answer, or the last retry failed.
GaveUpAt(a) ==
    \/ attempts[a].result = "404"
    \/ attempts[a].result = "error" /\ ErrorsUpTo(a) = RETRY_TIMES + 1

\* C12 as amended: a fetch that fails with a transient error is tried again,
\* at most RETRY_TIMES more times, the same URL each time; once a fetch is
\* given up no further fetch is issued in the run and the driver goes to DONE.
C12_NoFetchAfterGiveUp ==
    \A a \in 1..Len(attempts) :
        Failed(a) =>
            IF GaveUpAt(a)
            THEN a = Len(attempts) /\ Pending = {} /\ ~Running
            ELSE /\ ErrorsUpTo(a) <= RETRY_TIMES
                 /\ a < Len(attempts) => attempts[a + 1].url = attempts[a].url
                 /\ a = Len(attempts) =>
                       /\ pc = "running"
                       /\ Pending = {[url |-> attempts[a].url, retry_times |-> ErrorsUpTo(a),
                                      dont_filter |-> TRUE]}

C12_Witness ==
    /\ pc = "closed"
    /\ Len(attempts) = 6
    /\ attempts[2].result = "error"
    /\ attempts[3].result = "ok"
    /\ GaveUpAt(6)
    /\ attempts[6].url = Page3URL
    /\ attempts[6].result = "error"

(***************************************************************************)
(* C13: every item of a page is emitted to the sink before the fetch of    *)
(* the next page is requested: whenever the fetch of page k+1 is pending   *)
(* or done, all items of pages 1..k have been emitted and accepted.        *)
(***************************************************************************)
C13_ItemsBeforeNextFetch ==
    \A k \in Visits :
        (k < Len(visited) \/ Pending # {}) =>
            /\ Len(EmittedBy(k)) = Len(PageOf(k).entries)
            /\ \A j \in 1..Len(origin) : origin[j].k = k => j <= Len(books_results)

C13_Witness ==
    /\ Len(visited) = 1
    /\ \E r \in Pending : r.url = Page2URL /\ r.retry_times = 0
    /\ Len(PageOf(1).entries) = 2
    /\ Len(books_results) = 2

IsPrefix(p, q) == Len(p) <= Len(q) /\ SubSeq(q, 1, Len(p)) = p

\* The accepted items are the first items of the pages answered so far.
ResultIsPrefix == IsPrefix(books_results, ConcatItems(VisitedURLs))

(***************************************************************************)
(* C14: the result list only grows at its end: in every state, also after  *)
(* a fetch failure, it is a prefix of the items of the pages fetched so    *)
(* far in visit order, and no step removes, reorders or rewrites an        *)
(* accepted item.                                                          *)
(***************************************************************************)
C14_AppendOnly == []ResultIsPrefix /\ [][IsPrefix(books_results, books_results')]_vars

C14_Witness ==
    /\ MainEnded
    /\ GivenUp(Page3URL)
    /\ Len(visited) = 2
    /\ Len(EmittedBy(1)) = 1
    /\ Len(EmittedBy(2)) = 1
    /\ books_results[1] # books_results[2]
    /\ books_data = books_results

(***************************************************************************)
(* C15: every item emitted in a run has exactly the field names title and  *)
(* price, in that order, whatever was found on the page; so the field      *)
(* names read from the first item fit every later item.                    *)
(***************************************************************************)
C15_FixedFieldNames ==
    /\ \A j \in 1..Len(emitted) : Keys(emitted[j]) = <<"title", "price">>
    /\ main \in {"keys", "open", "header", "exit"} =>
          /\ keys = <<"title", "price">>
          /\ \A j \in 1..Len(books_data) : Keys(books_data[j]) = keys
    /\ main # "ValueError"

C15_Witness ==
    /\ main = "exit"
    /\ Len(books_data) = 2
    /\ books_data[1][1][2] = None
    /\ books_data[1][2][2] = None
    /\ books_data[2][1][2] = "A"
    /\ books_data[2][2][2] = "$10"

\* Two answered pages with the same product nodes gave the same items,
\* whatever their URLs, their pagers and the state of the crawl.
SamePageSameItems ==
    \A j, k \in Visits :
        (VisitDone(j) /\ VisitDone(k) /\ PageOf(j).entries = PageOf(k).entries)
            => EmittedBy(j) = EmittedBy(k)

\* A step that emits an item leaves the site and the pending requests alone.
ExtractionChangesNoCrawlState ==
    emitted' # emitted => UNCHANGED <<site, scheduler, seen, inflight, admitted>>

(***************************************************************************)
(* C16: extraction is a pure function of the page: run on the same page    *)
(* content again it yields the identical item sequence, and it changes     *)
(* neither the page nor the pending-URL state of the crawl.                *)
(***************************************************************************)
C16_ExtractionIsPure == []SamePageSameItems /\ [][ExtractionChangesNoCrawlState]_vars

C16_Witness ==
    /\ Len(visited) = 2
    /\ ~Running
    /\ PageOf(1).entries = PageOf(2).entries
    /\ PageOf(1).next # PageOf(2).next
    /\ Len(EmittedBy(1)) = 1
    /\ EmittedBy(2) = EmittedBy(1)

\* The last successful attempt before attempt a, 0 if there is none.
LastOkBefore(a) ==
    LET oks == {b \in 1..(a - 1) : attempts[b].result = "ok"}
    IN  IF oks = {} THEN 0 ELSE CHOOSE b \in oks : \A c \in oks : c <= b

\* u is what the crawl may fetch as its a-th attempt: the start URL while no
\* page has been answered, else the href of the "next" anchor of the last
\* answered page, resolved against that page's URL.
Discovered(u, a) ==
    LET b == LastOkBefore(a) IN
    IF b = 0 THEN u = URL
    ELSE LET base == attempts[b].url IN
         /\ site[base].next # <<>>
         /\ site[base].next[1] # <<>>
         /\ site[base].next[1][1] # EmptyHref
         /\ u = ResolveSegments(Front(base), site[base].next[1][1])

(***************************************************************************)
(* C17: the fetched URLs start with the fixed seed URL, every later one is *)
(* the next link of the last successfully fetched page before it, resolved *)
(* against that page's URL, and no other URL is ever fetched.              *)
(***************************************************************************)
C17_OnlyDiscoveredURLs ==
    /\ attempts # <<>> => attempts[1].url = URL
    /\ \A a \in 1..Len(attempts) : Discovered(attempts[a].url, a)
    /\ \A r \in Pending : Discovered(r.url, Len(attempts) + 1)

C17_Witness ==
    /\ Len(attempts) = 4
    /\ [a \in 1..4 |-> attempts[a].url] = <<URL, Page2URL, Page2URL, Page3URL>>
    /\ [a \in 1..4 |-> attempts[a].result] = <<"ok", "error", "ok", "ok">>

(***************************************************************************)
(* C18: when the run ends with an empty result (the seed fetch fails, or   *)
(* no visited page has a product node) the __main__ block fails reading    *)
(* the first item's field names, before the file is opened: books_data.csv *)
(* is neither created nor truncated and the run does not end normally.     *)
(***************************************************************************)
C18_EmptyResultFails ==
    (outcome # <<>> /\ books_data = <<>>) =>
        /\ main \in {"call", "IndexError"}
        /\ file \in {NoFile, StaleFile}
        /\ keys = <<>>

C18_Witness ==
    /\ main = "IndexError"
    /\ GivenUp(URL)
    /\ visited = <<>>
    /\ file = StaleFile

=============================================================================
